---- MODULE Spec2Model ----
(***************************************************************************)
(* A model of rust-neuralnet: dense two-stage layers (layer.rs), the       *)
(* network that owns them (network.rs), the topology builder (builder.rs), *)
(* the activations (activation.rs) and the dataset preparation             *)
(* (training/sample.rs, training/trainer.rs).                              *)
(*                                                                         *)
(* Numbers.  The crate computes in f64.  The model computes in integers    *)
(* and supports the two activations that map integers to integers,         *)
(* Identity and Rectifier.  A panic (assert!, ndarray's shape checks) is   *)
(* an outcome of its own, tagged "Panic"; the thread that panicked makes   *)
(* no further call.                                                        *)
(***************************************************************************)
EXTENDS Integers, Sequences, FiniteSets, TLC

VARIABLES
    layer,      \* SpecLayer: the Layer a caller owns ([live |-> FALSE] before Layer::new)
    builder,    \* Spec: the NeuralNetworkBuilder value being threaded through the calls
    net,        \* Spec: the NeuralNetwork, once built
    n_inputs,   \* Spec: history, the argument with_inputs was called with
    rng,        \* Spec: the state of the random generator handed to the builder
    last        \* the most recent call: its name, arguments and what it returned
                \* (SpecDataset, SpecActivation: first the argument the caller built)

vars == <<layer, builder, net, n_inputs, rng, last>>

----------------------------------------------------------------------------
(* Bounds of the model. *)

\* Largest layer width (inputs, neurons, outputs) and input column count.
MaxDim == 2
\* Largest number of samples (rows) of an input or expected-output matrix.
MaxSamples == 2
\* Largest number of layer() calls on one builder.
MaxHidden == 1
\* Number of values a random weight takes.
WeightLevels == 2

----------------------------------------------------------------------------
(* Matrices: ndarray's Array2, as its shape and its rows. *)

\* Array2::zeros((r, c))
Zeros(r, c) ==
    [rows |-> r, cols |-> c, data |-> [i \in 1..r |-> [j \in 1..c |-> 0]]]

RECURSIVE SumSeq(_)
SumSeq(s) == IF s = <<>> THEN 0 ELSE Head(s) + SumSeq(Tail(s))

\* a.dot(&b) panics unless a.cols() == b.rows()
DotDefined(a, b) == a.cols = b.rows

Dot(a, b) ==
    [rows |-> a.rows, cols |-> b.cols,
     data |-> [i \in 1..a.rows |-> [j \in 1..b.cols |->
                 SumSeq([k \in 1..a.cols |-> a.data[i][k] * b.data[k][j]])]]]

\* a.t()
Transpose(a) ==
    [rows |-> a.cols, cols |-> a.rows,
     data |-> [i \in 1..a.cols |-> [j \in 1..a.rows |-> a.data[j][i]]]]

\* The arithmetic operators broadcast the right operand to the shape of the
\* left one: an axis fits when it has the same length or length 1.
CanBroadcast(b, r, c) == (b.rows = r \/ b.rows = 1) /\ (b.cols = c \/ b.cols = 1)

BroadcastAt(b, i, j) ==
    b.data[IF b.rows = 1 THEN 1 ELSE i][IF b.cols = 1 THEN 1 ELSE j]

\* a - &b, defined when CanBroadcast(b, a.rows, a.cols)
Sub(a, b) ==
    [rows |-> a.rows, cols |-> a.cols,
     data |-> [i \in 1..a.rows |-> [j \in 1..a.cols |->
                 a.data[i][j] - BroadcastAt(b, i, j)]]]

\* a * b (elementwise), defined when CanBroadcast(b, a.rows, a.cols)
Mul(a, b) ==
    [rows |-> a.rows, cols |-> a.cols,
     data |-> [i \in 1..a.rows |-> [j \in 1..a.cols |->
                 a.data[i][j] * BroadcastAt(b, i, j)]]]

SameShape(a, b) == a.rows = b.rows /\ a.cols = b.cols

----------------------------------------------------------------------------
(* Activations (activation.rs), elementwise. *)

Activations == {"Identity", "Rectifier"}

\* Identity::compute, Rectifier::compute on one element
ComputeAt(activation, v) ==
    IF activation = "Identity" THEN v
    ELSE IF v < 0 THEN 0 ELSE v

\* A derivative whose Rectifier is 0 at 0: the right-closed convention.
ComputeDerivativeAtZeroAtZero(activation, v) ==
    IF activation = "Identity" THEN 1
    ELSE IF v <= 0 THEN 0 ELSE 1

\* Identity::compute_derivative, Rectifier::compute_derivative on one element
ComputeDerivativeAt(activation, v) ==
    IF activation = "Identity" THEN 1
    ELSE IF v < 0 THEN 0 ELSE 1

Compute(activation, x) ==
    [rows |-> x.rows, cols |-> x.cols,
     data |-> [i \in 1..x.rows |-> [j \in 1..x.cols |->
                 ComputeAt(activation, x.data[i][j])]]]

ComputeDerivative(activation, x) ==
    [rows |-> x.rows, cols |-> x.cols,
     data |-> [i \in 1..x.rows |-> [j \in 1..x.cols |->
                 ComputeDerivativeAt(activation, x.data[i][j])]]]

----------------------------------------------------------------------------
(* What a call returns. *)

NoError == [msg |-> "", cols |-> 0, rows |-> 0]
NoValue == <<>>

\* Ok(view) / a returned value
Returned(tag, value) == [tag |-> tag, value |-> value, error |-> NoError]
\* Err(String)
Failed(msg, c, r) ==
    [tag |-> "Err", value |-> NoValue, error |-> [msg |-> msg, cols |-> c, rows |-> r]]
\* the call panicked
Panicked == [tag |-> "Panic", value |-> NoValue, error |-> NoError]

----------------------------------------------------------------------------
(* Layer (layer.rs). *)

NoLayer == [live |-> FALSE]

\* Layer::new without its assert_eq!: the fields as the struct literal sets them.
LayerFields(activation, inputs_weights, outputs_weights) ==
    [live |-> TRUE,
     activation |-> activation,
     inputs_weights |-> inputs_weights,
     outputs |-> Zeros(inputs_weights.rows, inputs_weights.cols),
     outputs_weights |-> outputs_weights,
     layer_inputs_sum |-> Zeros(0, 0),
     layer_inputs_sum_activated |-> Zeros(0, 0),
     layer_outputs_sum |-> Zeros(0, 0),
     backprop_error_1 |-> Zeros(0, 0),
     backprop_error_2 |-> Zeros(0, 0),
     costs |-> <<>>,
     cost_d_inputs |-> Zeros(0, 0),
     cost_d_outputs |-> Zeros(0, 0)]

\* A Layer::new that builds the layer whatever the two shapes are.
LayerNewUnchecked(activation, inputs_weights, outputs_weights) ==
    [layer |-> LayerFields(activation, inputs_weights, outputs_weights),
     res |-> Returned("Ok", NoValue)]

\* Layer::new: assert_eq!(inputs_weights.cols(), outputs_weights.rows())
LayerNew(activation, inputs_weights, outputs_weights) ==
    IF inputs_weights.cols # outputs_weights.rows
    THEN [layer |-> NoLayer, res |-> Panicked]
    ELSE [layer |-> LayerFields(activation, inputs_weights, outputs_weights),
          res |-> Returned("Ok", NoValue)]

SizeMismatch == "Layer.forward : inputs size mismatch"

\* A forward_propagation that leaves layer_outputs_sum as it was.
ForwardPropagationStaleSum(l, inputs) ==
    IF inputs.cols # l.inputs_weights.rows
    THEN [layer |-> l,
          res |-> Failed(SizeMismatch, inputs.cols, l.inputs_weights.rows)]
    ELSE
      LET sum1 == Dot(inputs, l.inputs_weights)
          act1 == Compute(l.activation, sum1)
          out == Compute(l.activation, Dot(act1, l.outputs_weights))
      IN  [layer |-> [l EXCEPT !.layer_inputs_sum = sum1,
                               !.layer_inputs_sum_activated = act1,
                               !.outputs = out],
           res |-> Returned("Ok", out)]

\* Layer::forward_propagation
ForwardPropagation(l, inputs) ==
    IF inputs.cols # l.inputs_weights.rows
    THEN [layer |-> l,
          res |-> Failed(SizeMismatch, inputs.cols, l.inputs_weights.rows)]
    ELSE
      LET sum1 == Dot(inputs, l.inputs_weights)
          act1 == Compute(l.activation, sum1)
          l1 == [l EXCEPT !.layer_inputs_sum = sum1,
                          !.layer_inputs_sum_activated = act1]
      IN  IF ~DotDefined(act1, l.outputs_weights)
          THEN [layer |-> l1, res |-> Panicked]
          ELSE
            LET sum2 == Dot(act1, l.outputs_weights)
                out == Compute(l.activation, sum2)
            IN  [layer |-> [l1 EXCEPT !.layer_outputs_sum = sum2, !.outputs = out],
                 res |-> Returned("Ok", out)]

\* cost_gradient_mse, the output stage: backprop_error_1 and cost_d_outputs.
\* ok is FALSE when one of the array operations panics; the fields assigned
\* before the panic keep their new values.
GradientOutputStage(l, expected) ==
    LET outputs_derivative == ComputeDerivative(l.activation, l.layer_outputs_sum)
    IN  IF ~CanBroadcast(l.outputs, expected.rows, expected.cols)
        THEN [layer |-> l, ok |-> FALSE]
        ELSE
          LET outputs_delta == Sub(expected, l.outputs)
          IN  IF ~CanBroadcast(outputs_derivative, outputs_delta.rows, outputs_delta.cols)
              THEN [layer |-> l, ok |-> FALSE]
              ELSE
                LET e1 == Mul(outputs_delta, outputs_derivative)
                    l1 == [l EXCEPT !.backprop_error_1 = e1]
                    act_t == Transpose(l.layer_inputs_sum_activated)
                IN  IF ~DotDefined(act_t, e1)
                    THEN [layer |-> l1, ok |-> FALSE]
                    ELSE [layer |-> [l1 EXCEPT !.cost_d_outputs = Dot(act_t, e1)],
                          ok |-> TRUE]

\* cost_gradient_mse, the hidden stage: backprop_error_2 and cost_d_inputs.
GradientHiddenStage(l, inputs) ==
    LET inputs_derivative == ComputeDerivative(l.activation, l.layer_inputs_sum)
        weights_t == Transpose(l.outputs_weights)
    IN  IF ~DotDefined(l.backprop_error_1, weights_t)
        THEN [layer |-> l, ok |-> FALSE]
        ELSE
          LET back == Dot(l.backprop_error_1, weights_t)
          IN  IF ~CanBroadcast(inputs_derivative, back.rows, back.cols)
              THEN [layer |-> l, ok |-> FALSE]
              ELSE
                LET e2 == Mul(back, inputs_derivative)
                    l1 == [l EXCEPT !.backprop_error_2 = e2]
                    inputs_t == Transpose(inputs)
                IN  IF ~DotDefined(inputs_t, e2)
                    THEN [layer |-> l1, ok |-> FALSE]
                    ELSE [layer |-> [l1 EXCEPT !.cost_d_inputs = Dot(inputs_t, e2)],
                          ok |-> TRUE]

\* A cost_gradient_mse that forms the delta in place, in self.outputs.
CostGradientMseInPlace(l, inputs, expected) ==
    LET a == GradientOutputStage(l, expected)
    IN  IF ~a.ok THEN [layer |-> a.layer, res |-> Panicked]
        ELSE LET b == GradientHiddenStage(a.layer, inputs)
             IN  IF ~b.ok THEN [layer |-> b.layer, res |-> Panicked]
                 ELSE [layer |-> [b.layer EXCEPT !.outputs = Sub(expected, l.outputs)],
                       res |-> Returned("Value",
                                 <<b.layer.cost_d_inputs, b.layer.cost_d_outputs>>)]

\* Layer::cost_gradient_mse: returns (cost_d_inputs, cost_d_outputs)
CostGradientMse(l, inputs, expected) ==
    LET a == GradientOutputStage(l, expected)
    IN  IF ~a.ok THEN [layer |-> a.layer, res |-> Panicked]
        ELSE LET b == GradientHiddenStage(a.layer, inputs)
             IN  IF ~b.ok THEN [layer |-> b.layer, res |-> Panicked]
                 ELSE [layer |-> b.layer,
                       res |-> Returned("Value",
                                 <<b.layer.cost_d_inputs, b.layer.cost_d_outputs>>)]

\* The costs are multiples of 0.5: a cost is kept as num / CostDenominator.
CostDenominator == 2

\* Layer::cost_mse: Zip::and panics unless outputs has the shape of
\* expected_outputs; costs[j] = 0.5 * sum over the samples of the squared
\* differences of column j.  The inputs argument is not read.
CostMse(l, inputs, expected) ==
    IF ~SameShape(l.outputs, expected)
    THEN [layer |-> l, res |-> Panicked]
    ELSE
      LET costs == [j \in 1..expected.cols |->
                     [num |-> SumSeq([i \in 1..expected.rows |->
                                 (l.outputs.data[i][j] - expected.data[i][j])
                                 * (l.outputs.data[i][j] - expected.data[i][j])]),
                      den |-> CostDenominator]]
      IN  [layer |-> [l EXCEPT !.costs = costs], res |-> Returned("Value", costs)]

----------------------------------------------------------------------------
(* The calls' arguments. *)

\* A matrix of the given shape with entries in {-1, 0, 1}.
Pattern(k, r, c) ==
    [rows |-> r, cols |-> c,
     data |-> [i \in 1..r |-> [j \in 1..c |-> ((k + 2 * i + j) % 3) - 1]]]

WeightPatterns == {2}
InputPatterns == {2}
ExpectedPatterns == {1}

Dims == 1..MaxDim
Samples == 1..MaxSamples

WeightShapes(k) == {Pattern(k, r, c) : r \in Dims, c \in Dims}
InputMatrices == {Pattern(k, s, c) : k \in InputPatterns, s \in Samples, c \in Dims}
\* The inputs matrix of a dataset of s samples: one row per sample.
DatasetInputs(s, c) == CHOOSE x \in InputMatrices : x.rows = s /\ x.cols = c
ExpectedMatrices == {Pattern(k, s, c) : k \in ExpectedPatterns, s \in Samples, c \in Dims}

----------------------------------------------------------------------------
(* The record of the most recent call. *)

Call(op, inputs, expected, res, calls) ==
    [op |-> op, inputs |-> inputs, expected |-> expected,
     tag |-> res.tag, value |-> res.value, error |-> res.error, calls |-> calls]

NoCall == Call("none", Zeros(0, 0), Zeros(0, 0), Returned("none", NoValue), <<>>)

NoBuilder == [state |-> "none", last_layer_outputs |-> 0, layers |-> <<>>]
NoNetwork == [live |-> FALSE, layers |-> <<>>]

Running == last.tag # "Panic"

----------------------------------------------------------------------------
(* SpecLayer: one Layer, owned by the caller. *)

LayerInit ==
    /\ layer = NoLayer
    /\ builder = NoBuilder
    /\ net = NoNetwork
    /\ n_inputs = 0
    /\ rng = 0
    /\ last = NoCall

NewLayer ==
    /\ Running /\ ~layer.live
    /\ \E activation \in Activations, k \in WeightPatterns :
       \E iw \in WeightShapes(k), ow \in WeightShapes(k) :
         LET r == LayerNew(activation, iw, ow)
         IN  /\ layer' = r.layer
             /\ last' = Call("Layer::new", iw, ow, r.res, <<>>)
    /\ UNCHANGED <<builder, net, n_inputs, rng>>

LayerForward ==
    /\ Running /\ layer.live
    /\ \E inputs \in InputMatrices :
         LET r == ForwardPropagation(layer, inputs)
         IN  /\ layer' = r.layer
             /\ last' = Call("forward_propagation", inputs, Zeros(0, 0), r.res, <<>>)
    /\ UNCHANGED <<builder, net, n_inputs, rng>>

LayerCost ==
    /\ Running /\ layer.live
    /\ \E expected \in ExpectedMatrices :
         LET inputs == DatasetInputs(expected.rows, layer.inputs_weights.rows)
             r == CostMse(layer, inputs, expected)
         IN  /\ layer' = r.layer
             /\ last' = Call("cost_mse", inputs, expected, r.res, <<>>)
    /\ UNCHANGED <<builder, net, n_inputs, rng>>

LayerGradient ==
    /\ Running /\ layer.live
    /\ \E expected \in ExpectedMatrices, c \in Dims :
         LET inputs == DatasetInputs(expected.rows, c)
             r == CostGradientMse(layer, inputs, expected)
         IN  /\ layer' = r.layer
             /\ last' = Call("cost_gradient_mse", inputs, expected, r.res, <<>>)
    /\ UNCHANGED <<builder, net, n_inputs, rng>>

LayerNext == NewLayer \/ LayerForward \/ LayerCost \/ LayerGradient

SpecLayer == LayerInit /\ [][LayerNext]_vars

----------------------------------------------------------------------------
(* Random weights (utils.rs, Layer::with_random_weights). *)

\* One draw of Range::new(0.0, 1.0) from generator state g: the sample k
\* stands for the weight k / WeightLevels, which lies in [0, 1).
Sample(g) == g % WeightLevels

\* Array2::random((r, c), ..): from_shape_fn draws the elements in row-major
\* order, one draw each.
Random(r, c, g) ==
    [rows |-> r, cols |-> c,
     data |-> [i \in 1..r |-> [j \in 1..c |-> Sample(g + (i - 1) * c + (j - 1))]]]

\* The generator after n draws.
Advance(g, n) == (g + n) % WeightLevels

\* Layer::with_random_weights: [layer, res, rng]
LayerWithRandomWeights(activation, dim_inputs, dim_neurons, dim_outputs, g) ==
    LET inputs_weights == Random(dim_inputs, dim_neurons, g)
        g1 == Advance(g, dim_inputs * dim_neurons)
        outputs_weights == Random(dim_neurons, dim_outputs, g1)
        r == LayerNew(activation, inputs_weights, outputs_weights)
    IN  [layer |-> r.layer, res |-> r.res,
         rng |-> Advance(g1, dim_neurons * dim_outputs)]

----------------------------------------------------------------------------
(* NeuralNetworkBuilder (builder.rs). *)

\* NeuralNetworkBuilder::with_inputs
WithInputs(inputs) ==
    IF ~(inputs > 0)
    THEN [builder |-> NoBuilder, res |-> Panicked]
    ELSE [builder |-> [state |-> "open", last_layer_outputs |-> inputs, layers |-> <<>>],
          res |-> Returned("Ok", NoValue)]

\* A layer() that sizes the new layer's outputs by the previous width.
BuilderLayerOldWidth(b, neurons, activation, g) ==
    LET r == LayerWithRandomWeights(activation, b.last_layer_outputs, neurons,
                                    b.last_layer_outputs, g)
    IN  [builder |-> [b EXCEPT !.layers = Append(b.layers, r.layer),
                               !.last_layer_outputs = neurons],
         res |-> Returned("Ok", NoValue), rng |-> r.rng]

\* NeuralNetworkBuilder::layer.  Its debug_assert!(last_layer_outputs > 0)
\* cannot trip: with_inputs asserts a positive width and the model's widths
\* are at least 1.
BuilderLayer(b, neurons, activation, g) ==
    LET r == LayerWithRandomWeights(activation, b.last_layer_outputs, neurons, neurons, g)
    IN  IF r.res.tag = "Panic"
        THEN [builder |-> b, res |-> Panicked, rng |-> r.rng]
        ELSE [builder |-> [b EXCEPT !.layers = Append(b.layers, r.layer),
                                    !.last_layer_outputs = neurons],
              res |-> Returned("Ok", NoValue), rng |-> r.rng]

\* NeuralNetwork::new
NetworkNew(layers) == [live |-> TRUE, layers |-> layers]

\* NeuralNetworkBuilder::output: [builder, net, res, rng]
BuilderOutput(b, neurons, outputs, activation, g) ==
    IF ~(Len(b.layers) > 0)
    THEN [builder |-> b, net |-> NoNetwork, res |-> Panicked, rng |-> g]
    ELSE
      LET r == LayerWithRandomWeights(activation, b.last_layer_outputs, neurons, outputs, g)
      IN  IF r.res.tag = "Panic"
          THEN [builder |-> b, net |-> NoNetwork, res |-> Panicked, rng |-> r.rng]
          ELSE [builder |-> [state |-> "consumed", last_layer_outputs |-> outputs,
                             layers |-> Append(b.layers, r.layer)],
                net |-> NetworkNew(Append(b.layers, r.layer)),
                res |-> Returned("Ok", NoValue), rng |-> r.rng]

----------------------------------------------------------------------------
(* NeuralNetwork (network.rs). *)

NoLayersDefined == "NeuralNetwork.run_foward : no layers defined."
BackpropError == "backprop error"

\* A run_forward whose result starts out as an Ok of an empty view.
RunForwardStartOk == Returned("Ok", Zeros(0, 0))

\* run_forward: let mut layer_result = Err(..)
RunForwardStart == Failed(NoLayersDefined, 0, 0)

\* run_forward, the loop from layer i on.  calls lists, per layer visited, the
\* inputs it was handed and what its forward_propagation returned.
RECURSIVE RunForwardLoop(_, _, _, _, _)
RunForwardLoop(layers, i, inputs, layer_result, calls) ==
    IF i > Len(layers)
    THEN [layers |-> layers, res |-> layer_result, calls |-> calls]
    ELSE
      LET r == ForwardPropagation(layers[i], inputs)
          done == Append(calls, [layer |-> i, op |-> "forward_propagation",
                                 given |-> inputs, tag |-> r.res.tag,
                                 error |-> r.res.error])
          after == [layers EXCEPT ![i] = r.layer]
      IN  IF r.res.tag = "Panic"
          THEN [layers |-> after, res |-> Panicked, calls |-> done]
          ELSE RunForwardLoop(after, i + 1, inputs, r.res, done)

\* NeuralNetwork::run_forward
RunForward(layers, inputs) == RunForwardLoop(layers, 1, inputs, RunForwardStart, <<>>)

\* backward_propagation, the loop from layer i on.  calls lists the cost and
\* gradient calls made: the layer, and the expected outputs it was given.
RECURSIVE BackwardLoop(_, _, _, _, _)
BackwardLoop(layers, i, inputs, expected_outputs, calls) ==
    IF i > Len(layers)
    THEN [layers |-> layers, res |-> Failed(BackpropError, 0, 0), calls |-> calls]
    ELSE
      LET c == CostMse(layers[i], inputs, expected_outputs)
          calls1 == Append(calls, [layer |-> i, op |-> "cost_mse",
                                   given |-> expected_outputs, tag |-> c.res.tag,
                                   error |-> c.res.error])
      IN  IF c.res.tag = "Panic"
          THEN [layers |-> [layers EXCEPT ![i] = c.layer], res |-> Panicked,
                calls |-> calls1]
          ELSE
            LET g == CostGradientMse(c.layer, inputs, expected_outputs)
                calls2 == Append(calls1, [layer |-> i, op |-> "cost_gradient_mse",
                                          given |-> expected_outputs, tag |-> g.res.tag,
                                          error |-> g.res.error])
                after == [layers EXCEPT ![i] = g.layer]
            IN  IF g.res.tag = "Panic"
                THEN [layers |-> after, res |-> Panicked, calls |-> calls2]
                ELSE BackwardLoop(after, i + 1, inputs, expected_outputs, calls2)

\* NeuralNetwork::backward_propagation
BackwardPropagation(layers, inputs, expected_outputs) ==
    BackwardLoop(layers, 1, inputs, expected_outputs, <<>>)

----------------------------------------------------------------------------
(* Spec: a builder, the network it builds, and the calls on the network. *)

\* The state thread_rng() starts in.
Seeds == {1}

\* The width of the samples a network is fed: that of its first layer.
NetworkInputs(layers) == IF layers = <<>> THEN 1 ELSE layers[1].inputs_weights.rows

Init ==
    /\ layer = NoLayer
    /\ builder = NoBuilder
    /\ net = NoNetwork
    /\ n_inputs = 0
    /\ rng \in Seeds
    /\ last = NoCall

\* with_inputs(n); n = 0 trips its assert!
CallWithInputs ==
    /\ Running /\ builder.state = "none" /\ ~net.live
    /\ \E n \in 0..MaxDim :
         LET r == WithInputs(n)
         IN  /\ builder' = r.builder
             /\ n_inputs' = n
             /\ last' = Call("with_inputs", Zeros(0, 0), Zeros(0, 0), r.res, <<>>)
    /\ UNCHANGED <<layer, net, rng>>

\* layer(neurons, ..); as in the crate's test and example, one activation
\* serves every layer of a network
CallLayer ==
    /\ Running /\ builder.state = "open" /\ Len(builder.layers) < MaxHidden
    /\ \E neurons \in Dims, activation \in Activations :
         LET r == BuilderLayer(builder, neurons, activation, rng)
         IN  /\ \A i \in 1..Len(builder.layers) : builder.layers[i].activation = activation
             /\ builder' = r.builder
             /\ rng' = r.rng
             /\ last' = Call("layer", Zeros(0, 0), Zeros(0, 0), r.res, <<>>)
    /\ UNCHANGED <<layer, net, n_inputs>>

CallOutput ==
    /\ Running /\ builder.state = "open"
    /\ \E neurons \in Dims, outputs \in Dims, activation \in Activations :
         LET r == BuilderOutput(builder, neurons, outputs, activation, rng)
         IN  /\ \A i \in 1..Len(builder.layers) : builder.layers[i].activation = activation
             /\ builder' = r.builder
             /\ net' = r.net
             /\ rng' = r.rng
             /\ last' = Call("output", Zeros(0, 0), Zeros(0, 0), r.res, <<>>)
    /\ UNCHANGED <<layer, n_inputs>>

\* NeuralNetwork::new(vec![]), the one network no builder produces
CallNetworkNew ==
    /\ Running /\ builder.state = "none" /\ ~net.live
    /\ net' = NetworkNew(<<>>)
    /\ last' = Call("NeuralNetwork::new", Zeros(0, 0), Zeros(0, 0),
                    Returned("Ok", NoValue), <<>>)
    /\ UNCHANGED <<layer, builder, n_inputs, rng>>

CallRunForward ==
    /\ Running /\ net.live
    /\ \E inputs \in InputMatrices :
         LET r == RunForward(net.layers, inputs)
         IN  /\ net' = [net EXCEPT !.layers = r.layers]
             /\ last' = Call("run_forward", inputs, Zeros(0, 0), r.res, r.calls)
    /\ UNCHANGED <<layer, builder, n_inputs, rng>>

CallBackwardPropagation ==
    /\ Running /\ net.live
    /\ \E expected \in ExpectedMatrices :
         LET inputs == DatasetInputs(expected.rows, NetworkInputs(net.layers))
             r == BackwardPropagation(net.layers, inputs, expected)
         IN  /\ net' = [net EXCEPT !.layers = r.layers]
             /\ last' = Call("backward_propagation", inputs, expected, r.res, r.calls)
    /\ UNCHANGED <<layer, builder, n_inputs, rng>>

Next ==
    \/ CallWithInputs
    \/ CallLayer
    \/ CallOutput
    \/ CallNetworkNew
    \/ CallRunForward
    \/ CallBackwardPropagation

Spec == Init /\ [][Next]_vars

----------------------------------------------------------------------------
(* Claims about the network and its builder, under Spec. *)

\* The network in net is the one the builder's output() returned.
Built == net.live /\ builder.state = "consumed"

\* What threading the inputs through the layers returns: each layer is fed
\* the previous layer's output, and the first rejection ends the run.
RECURSIVE Threaded(_, _, _)
Threaded(layers, i, inputs) ==
    LET r == ForwardPropagation(layers[i], inputs)
    IN  IF r.res.tag # "Ok" \/ i = Len(layers) THEN r.res
        ELSE Threaded(layers, i + 1, r.res.value)

(* C1: run_forward threads its input through the layers: the first layer is
   handed the network input, each later layer is handed the output of the
   layer before it, and the value returned is the last layer's output of
   that chained computation. *)
C1_RunForwardThreadsLayers ==
    (last.op = "run_forward" /\ net.layers # <<>>) =>
        /\ last.calls[1].given = last.inputs
        /\ \A i \in 1..(Len(last.calls) - 1) :
             last.calls[i].tag = "Ok" => last.calls[i + 1].given = net.layers[i].outputs
        /\ LET t == Threaded(net.layers, 1, last.inputs)
           IN  t.tag = "Ok" => (last.tag = "Ok" /\ last.value = t.value)

(* C2: on a network the builder built for n inputs, run_forward of a matrix
   with n columns and s rows returns Ok with a matrix of s rows and as many
   columns as the output layer has outputs, whatever the hidden widths. *)
C2_BuiltNetworkRunsItsInputs ==
    (Built /\ last.op = "run_forward" /\ last.inputs.cols = n_inputs) =>
        /\ last.tag = "Ok"
        /\ last.value.rows = last.inputs.rows
        /\ last.value.cols = builder.last_layer_outputs

(* C4: when a layer's forward_propagation returns an error, run_forward
   returns that error and runs no layer after the rejecting one. *)
C4_RunForwardStopsAtRejection ==
    last.op = "run_forward" =>
        \A i \in 1..Len(last.calls) :
            last.calls[i].tag = "Err" =>
                /\ last.tag = "Err"
                /\ last.error = last.calls[i].error
                /\ Len(last.calls) = i

(* C5: run_forward on a network with no layers returns the
   "no layers defined" error, for every input. *)
C5_EmptyNetworkFails ==
    (last.op = "run_forward" /\ net.layers = <<>>) =>
        /\ last.tag = "Err"
        /\ last.error.msg = NoLayersDefined

C5_Witness ==
    net.live /\ net.layers = <<>> /\ last.op = "run_forward" /\ last.inputs.rows = MaxSamples

(* C8: backward_propagation visits the layers from the last to the first,
   and a layer other than the last is not given the network's expected
   outputs but the error coming out of the layer after it. *)
C8_BackwardRunsInReverse ==
    (last.op = "backward_propagation" /\ last.calls # <<>>) =>
        /\ last.calls[1].layer = Len(net.layers)
        /\ \A k \in 1..(Len(last.calls) - 1) :
             last.calls[k + 1].layer <= last.calls[k].layer
        /\ \A k \in 1..Len(last.calls) :
             last.calls[k].layer < Len(net.layers) => last.calls[k].given # last.expected

(* C10: a network the builder returns is shape-compatible: its first layer
   takes n inputs, and each layer's output width (the columns of its output
   weights) is the next layer's input width (the rows of its input weights). *)
C10_BuiltNetworkShapeCompatible ==
    Built =>
        /\ net.layers[1].inputs_weights.rows = n_inputs
        /\ \A i \in 1..(Len(net.layers) - 1) :
             net.layers[i].outputs_weights.cols = net.layers[i + 1].inputs_weights.rows

C10_Witness ==
    /\ Built /\ last.op = "output"
    /\ Len(net.layers) = 2
    /\ net.layers[1].outputs_weights.cols # n_inputs
    /\ net.layers[2].outputs_weights.cols # net.layers[2].inputs_weights.rows

\* The last call was output() on a builder that had seen no layer() call:
\* a builder output() consumed holds the one layer output() pushed, a
\* builder output() panicked on holds none.
OutputWithoutLayer ==
    /\ last.op = "output"
    /\ Len(builder.layers) = (IF builder.state = "consumed" THEN 1 ELSE 0)

(* C11: with_inputs(n).output(neurons, outputs, ..) with no layer() call in
   between completes without failing and returns a network of exactly one
   layer, of shape n inputs -> neurons -> outputs. *)
C11_OutputAloneBuildsOneLayer ==
    OutputWithoutLayer =>
        /\ last.tag = "Ok"
        /\ net.live
        /\ Len(net.layers) = 1
        /\ net.layers[1].inputs_weights.rows = n_inputs
        /\ net.layers[1].inputs_weights.cols = net.layers[1].outputs_weights.rows
        /\ net.layers[1].outputs_weights.cols = builder.last_layer_outputs

----------------------------------------------------------------------------
(* Claims about one layer, under SpecLayer. *)

\* The layer's forward cache is the one forward_propagation(inputs) leaves.
CacheIsOf(l, inputs) ==
    /\ inputs.cols = l.inputs_weights.rows
    /\ ForwardPropagation(l, inputs).layer = l

(* C3: forward_propagation returns the size-mismatch error, carrying both
   dimensions, exactly when the inputs' column count differs from the rows of
   the input weights; otherwise it returns Ok; it never panics. *)
C3_ForwardChecksShape ==
    last.op = "forward_propagation" =>
        IF last.inputs.cols # layer.inputs_weights.rows
        THEN /\ last.tag = "Err"
             /\ last.error = [msg |-> SizeMismatch, cols |-> last.inputs.cols,
                              rows |-> layer.inputs_weights.rows]
        ELSE last.tag = "Ok"

C3_Witness ==
    /\ last.op = "forward_propagation" /\ last.tag = "Err"
    /\ layer.layer_outputs_sum.rows > 0
    /\ layer.inputs_weights.cols # layer.inputs_weights.rows

\* The gradients as the specification derives them.
OutputError(l, expected) ==
    Mul(Sub(l.outputs, expected), ComputeDerivative(l.activation, l.layer_outputs_sum))
HiddenError(l, expected) ==
    Mul(Dot(OutputError(l, expected), Transpose(l.outputs_weights)),
        ComputeDerivative(l.activation, l.layer_inputs_sum))

(* C6: after forward_propagation(X), cost_gradient_mse(X, E) returns
   (transpose(X) . hidden_error, transpose(activated_hidden) . output_error)
   with output_error = (output - E) .* f'(pre_activation_output) and
   hidden_error = (output_error . transpose(output_weights)) .*
   f'(pre_activation_hidden). *)
C6_GradientFormulas ==
    (/\ last.op = "cost_gradient_mse" /\ last.tag = "Value"
     /\ CacheIsOf(layer, last.inputs)
     /\ SameShape(last.expected, layer.outputs)) =>
        last.value = <<Dot(Transpose(last.inputs), HiddenError(layer, last.expected)),
                       Dot(Transpose(layer.layer_inputs_sum_activated),
                           OutputError(layer, last.expected))>>

StaleState == "StaleState"

(* C7: a cost or gradient request with no prior forward call, or with
   expected outputs whose sample count is not that of the last forward call,
   returns a StaleState error: no panic, no value. *)
C7_StaleRequestFails ==
    (/\ last.op \in {"cost_mse", "cost_gradient_mse"}
     /\ \/ layer.layer_outputs_sum.rows = 0
        \/ last.expected.rows # layer.layer_outputs_sum.rows) =>
        /\ last.tag = "Err"
        /\ last.error.msg = StaleState

\* The weights and the forward-pass cache of a layer.
WeightsAndCache(l) ==
    <<l.inputs_weights, l.outputs_weights, l.layer_inputs_sum,
      l.layer_inputs_sum_activated, l.layer_outputs_sum, l.outputs>>

(* C9: cost_mse and cost_gradient_mse leave the weights and the forward-pass
   cache as they were, and a gradient call repeated with the same arguments
   returns the same gradients. *)
C9_CostCallsOnlyCompute ==
    [][last'.op \in {"cost_mse", "cost_gradient_mse"} =>
         /\ WeightsAndCache(layer') = WeightsAndCache(layer)
         /\ (last'.op = "cost_gradient_mse" /\ last'.tag = "Value") =>
              CostGradientMse(layer', last'.inputs, last'.expected).res.value
                  = last'.value]_vars

C9_Witness ==
    /\ last.op = "cost_gradient_mse" /\ last.tag = "Value"
    /\ layer.cost_d_inputs.rows > 0
    /\ layer.costs # <<>>
    /\ \E i \in 1..layer.cost_d_outputs.rows, j \in 1..layer.cost_d_outputs.cols :
         layer.cost_d_outputs.data[i][j] # 0

(* C14: after a forward_propagation call that returned Ok, the four cached
   matrices (pre-activation hidden sum, activated hidden sum, pre-activation
   output sum, output) are those computed from that call's input, the output
   having one row per sample and one column per output, and the weights are
   as before; a call that returned the size-mismatch error changes no cached
   matrix and no weight.  So after any sequence of calls the cache is that
   of the most recent call that returned Ok. *)
C14_ForwardCacheIsLatestOk ==
    [][last'.op = "forward_propagation" =>
         IF last'.tag = "Ok"
         THEN /\ layer'.inputs_weights = layer.inputs_weights
              /\ layer'.outputs_weights = layer.outputs_weights
              /\ layer'.layer_inputs_sum = Dot(last'.inputs, layer.inputs_weights)
              /\ layer'.layer_inputs_sum_activated =
                   Compute(layer.activation, layer'.layer_inputs_sum)
              /\ layer'.layer_outputs_sum =
                   Dot(layer'.layer_inputs_sum_activated, layer.outputs_weights)
              /\ layer'.outputs = Compute(layer.activation, layer'.layer_outputs_sum)
              /\ layer'.outputs.rows = last'.inputs.rows
              /\ layer'.outputs.cols = layer.outputs_weights.cols
              /\ last'.value = layer'.outputs
         ELSE WeightsAndCache(layer') = WeightsAndCache(layer)]_vars

C14_Witness ==
    /\ last.op = "forward_propagation" /\ last.tag = "Err"
    /\ layer.outputs.rows = MaxSamples
    /\ layer.outputs.cols = layer.outputs_weights.cols
    /\ layer.outputs.cols # layer.inputs_weights.cols
    /\ layer.layer_inputs_sum_activated # layer.layer_inputs_sum
    /\ \E i \in 1..layer.outputs.rows, j \in 1..layer.outputs.cols :
         layer.outputs.data[i][j] # 0

----------------------------------------------------------------------------
(* Datasets (training/sample.rs, training/trainer.rs). *)

\* An Array1 of length n with entries in {-1, 0, 1}.
SampleVector(k, n) == [j \in 1..n |-> ((k + j) % 3) - 1]

\* Sample::dataset(inputs, outputs)
SampleDataset(inputs, outputs) ==
    [inputs |-> inputs, outputs |-> [some |-> TRUE, v |-> outputs]]

\* Sample::predict(inputs)
SamplePredict(inputs) == [inputs |-> inputs, outputs |-> [some |-> FALSE]]

SamplePatterns == {0, 1}
\* A vector may be empty: Sample takes any Array1.
Widths == 0..MaxDim

SampleSet ==
    {SampleDataset(SampleVector(k, n), SampleVector(k + 1, m)) :
        k \in SamplePatterns, n \in Widths, m \in Widths}
    \cup {SamplePredict(SampleVector(k, n)) : k \in SamplePatterns, n \in Widths}

\* Vec<Sample> of at most MaxSamples samples
Datasets == UNION {[1..n -> SampleSet] : n \in 0..MaxSamples}

EmptyDataset == "empty dataset"
NoObservedOutput == "dataset error : no observed output for the sample of index"
InputsCountMismatch == "inputs count mismatch"
OutputsCountMismatch == "outputs count mismatch"

\* Err(format!(..)) of prepare_dataset: the message names the sample.
DatasetFailed(msg, index) ==
    [tag |-> "Err", value |-> NoValue, error |-> [msg |-> msg, index |-> index]]

\* prepare_dataset, the loop from sample i on (i counts from 1 here, the
\* messages count from 0).
RECURSIVE PrepareLoop(_, _, _, _, _, _)
PrepareLoop(dataset, i, inputs_number, outputs_number, inputs, observed_outputs) ==
    IF i > Len(dataset)
    THEN Returned("Ok", <<inputs, observed_outputs>>)
    ELSE IF ~dataset[i].outputs.some
    THEN DatasetFailed(NoObservedOutput, i - 1)
    ELSE
      LET sample_outputs == dataset[i].outputs.v
          sample_inputs == dataset[i].inputs
      IN  IF Len(sample_inputs) # inputs_number
          THEN DatasetFailed(InputsCountMismatch, i - 1)
          ELSE IF Len(sample_outputs) # outputs_number
          THEN DatasetFailed(OutputsCountMismatch, i - 1)
          ELSE PrepareLoop(dataset, i + 1, inputs_number, outputs_number,
                 [inputs EXCEPT !.data[i] =
                     [j \in 1..inputs_number |-> sample_inputs[j]]],
                 [observed_outputs EXCEPT !.data[i] =
                     [j \in 1..outputs_number |-> sample_outputs[j]]])

\* A prepare_dataset that sizes both matrices by the first sample and copies
\* what fits, checking no later sample.
PrepareDatasetFirstOnly(dataset) ==
    IF dataset = <<>>
    THEN DatasetFailed(EmptyDataset, 0)
    ELSE IF ~dataset[1].outputs.some
    THEN DatasetFailed(NoObservedOutput, 0)
    ELSE
      LET inputs_number == Len(dataset[1].inputs)
          outputs_number == Len(dataset[1].outputs.v)
          At(v, j) == IF j <= Len(v) THEN v[j] ELSE 0
      IN  Returned("Ok",
            <<[rows |-> Len(dataset), cols |-> inputs_number,
               data |-> [i \in 1..Len(dataset) |-> [j \in 1..inputs_number |->
                           At(dataset[i].inputs, j)]]],
              [rows |-> Len(dataset), cols |-> outputs_number,
               data |-> [i \in 1..Len(dataset) |-> [j \in 1..outputs_number |->
                           IF dataset[i].outputs.some
                           THEN At(dataset[i].outputs.v, j) ELSE 0]]]>>)

\* prepare_dataset
PrepareDataset(dataset) ==
    IF dataset = <<>>
    THEN DatasetFailed(EmptyDataset, 0)
    ELSE IF ~dataset[1].outputs.some
    THEN DatasetFailed(NoObservedOutput, 0)
    ELSE
      LET inputs_number == Len(dataset[1].inputs)
          outputs_number == Len(dataset[1].outputs.v)
      IN  PrepareLoop(dataset, 1, inputs_number, outputs_number,
                      Zeros(Len(dataset), inputs_number),
                      Zeros(Len(dataset), outputs_number))

\* Trainer::with_dataset: the Trainer holds the two matrices and the network.
TrainerWithDataset(network, dataset) ==
    LET r == PrepareDataset(dataset)
    IN  IF r.tag = "Ok"
        THEN Returned("Ok", [inputs |-> r.value[1], outputs |-> r.value[2],
                             network |-> network, halt_condition |-> <<"Epochs", 1>>])
        ELSE r

----------------------------------------------------------------------------
(* SpecDataset: the calls that materialize a dataset. *)

\* The caller has built its Vec<Sample>; last.inputs holds it.
DatasetInit ==
    /\ layer = NoLayer
    /\ builder = NoBuilder
    /\ net = NetworkNew(<<>>)
    /\ n_inputs = 0
    /\ rng = 0
    /\ \E dataset \in Datasets :
         last = Call("vec!", dataset, Zeros(0, 0), Returned("none", NoValue), <<>>)

\* prepare_dataset(&dataset)
CallPrepareDataset ==
    /\ last' = Call("prepare_dataset", last.inputs, Zeros(0, 0),
                    PrepareDataset(last.inputs), <<>>)
    /\ UNCHANGED <<layer, builder, net, n_inputs, rng>>

\* Trainer::with_dataset(network, &dataset)
CallTrainerWithDataset ==
    /\ last' = Call("Trainer::with_dataset", last.inputs, Zeros(0, 0),
                    TrainerWithDataset(net, last.inputs), <<>>)
    /\ UNCHANGED <<layer, builder, net, n_inputs, rng>>

DatasetNext == CallPrepareDataset \/ CallTrainerWithDataset

SpecDataset == DatasetInit /\ [][DatasetNext]_vars

----------------------------------------------------------------------------
(* Claims about datasets, under SpecDataset. *)

\* Every sample has observed outputs and the widths of the first sample.
Homogeneous(dataset) ==
    /\ dataset # <<>>
    /\ \A i \in 1..Len(dataset) : dataset[i].outputs.some
    /\ \A i \in 1..Len(dataset) :
         /\ Len(dataset[i].inputs) = Len(dataset[1].inputs)
         /\ Len(dataset[i].outputs.v) = Len(dataset[1].outputs.v)

\* The two matrices a successful call returned.
PreparedInputs == IF last.op = "prepare_dataset" THEN last.value[1] ELSE last.value.inputs
PreparedOutputs == IF last.op = "prepare_dataset" THEN last.value[2] ELSE last.value.outputs

(* C12: prepare_dataset returns Ok exactly when the dataset is non-empty,
   every sample has an outputs vector, and every sample's inputs and outputs
   lengths are those of the first sample; the result is then an inputs matrix
   [samples x inputs] and an outputs matrix [samples x outputs] whose row i
   is sample i's values in order.  Otherwise it returns an error and no
   matrices.  Trainer::with_dataset hands the same outcome on. *)
C12_PrepareDatasetChecksAndCopies ==
    last.op \in {"prepare_dataset", "Trainer::with_dataset"} =>
        IF Homogeneous(last.inputs)
        THEN /\ last.tag = "Ok"
             /\ PreparedInputs.rows = Len(last.inputs)
             /\ PreparedInputs.cols = Len(last.inputs[1].inputs)
             /\ PreparedOutputs.rows = Len(last.inputs)
             /\ PreparedOutputs.cols = Len(last.inputs[1].outputs.v)
             /\ \A i \in 1..Len(last.inputs) :
                  /\ PreparedInputs.data[i] = last.inputs[i].inputs
                  /\ PreparedOutputs.data[i] = last.inputs[i].outputs.v
        ELSE /\ last.tag = "Err"
             /\ last.value = NoValue

C12_Witness ==
    /\ last.op = "prepare_dataset" /\ last.tag = "Ok"
    /\ Len(last.inputs) = MaxSamples
    /\ last.value[1].cols = MaxDim
    /\ last.value[2].cols = 1
    /\ last.value[1].data[1] # last.value[1].data[2]

----------------------------------------------------------------------------
(* SpecActivation: an activation applied to an array (activation.rs). *)

\* The values the crate's relu test feeds: a negative, zero, a positive.
ActivationValues == {-7, 0, 3}

ActivationInputs ==
    UNION {{[rows |-> r, cols |-> c, data |-> d] :
               d \in [1..r -> [1..c -> ActivationValues]]} :
           r \in Samples, c \in Dims}

\* The caller has built its array; last.inputs holds it.
ActivationInit ==
    /\ layer = NoLayer
    /\ builder = NoBuilder
    /\ net = NoNetwork
    /\ n_inputs = 0
    /\ rng = 0
    /\ \E x \in ActivationInputs :
         last = Call("arr2", x, Zeros(0, 0), Returned("none", NoValue), <<>>)

\* activation.compute(&x); last.calls names the activation
CallCompute ==
    /\ \E activation \in Activations :
         last' = Call("compute", last.inputs, Zeros(0, 0),
                      Returned("Value", Compute(activation, last.inputs)),
                      <<activation>>)
    /\ UNCHANGED <<layer, builder, net, n_inputs, rng>>

\* activation.compute_derivative(&x)
CallComputeDerivative ==
    /\ \E activation \in Activations :
         last' = Call("compute_derivative", last.inputs, Zeros(0, 0),
                      Returned("Value", ComputeDerivative(activation, last.inputs)),
                      <<activation>>)
    /\ UNCHANGED <<layer, builder, net, n_inputs, rng>>

ActivationNext == CallCompute \/ CallComputeDerivative

SpecActivation == ActivationInit /\ [][ActivationNext]_vars

----------------------------------------------------------------------------
(* Claims about the activations, under SpecActivation. *)

(* C13: Rectifier is elementwise and shape-preserving, with
   compute(x) = x if x >= 0 else 0 and compute_derivative(x) = 1 if x >= 0
   else 0; at exactly 0 the value is 0 and the derivative is 1. *)
C13_RectifierLeftClosed ==
    (last.op \in {"compute", "compute_derivative"} /\ last.calls = <<"Rectifier">>) =>
        /\ SameShape(last.value, last.inputs)
        /\ \A i \in 1..last.inputs.rows, j \in 1..last.inputs.cols :
             LET x == last.inputs.data[i][j]
                 y == last.value.data[i][j]
             IN  /\ last.op = "compute" => y = (IF x >= 0 THEN x ELSE 0)
                 /\ last.op = "compute_derivative" => y = (IF x >= 0 THEN 1 ELSE 0)
                 /\ (x = 0 /\ last.op = "compute") => y = 0
                 /\ (x = 0 /\ last.op = "compute_derivative") => y = 1

C13_Witness ==
    /\ last.op = "compute_derivative" /\ last.calls = <<"Rectifier">>
    /\ last.inputs.rows = MaxSamples /\ last.inputs.cols = MaxDim
    /\ last.inputs.data[1][1] = 0 /\ last.value.data[1][1] = 1
    /\ last.inputs.data[1][2] < 0 /\ last.value.data[1][2] = 0
    /\ last.inputs.data[2][1] > 0 /\ last.value.data[2][1] = 1

====
